---- MODULE Spec2Model ----
(***************************************************************************)
(* Model of the notebook application's orchestration layer (src/App.tsx,   *)
(* the ChatView / AddSourceForm component and the geminiService module).   *)
(*                                                                         *)
(* React state is modelled in two layers.  The committed state (notebooks, *)
(* activeNotebookId, chatHistory, isLoading) is what the state setters     *)
(* have produced so far.  The rendered snapshot r is the value of the same *)
(* four names inside the closures of the latest render: every handler of   *)
(* App reads notebooks / activeNotebook / chatHistory / isLoading from its *)
(* closure, i.e. from r, and writes through the setters.  Render is the    *)
(* step in which React re-renders App and the closures are rebuilt.        *)
(* Promise continuations (after an await) keep the closure of the render   *)
(* in which their handler was started.                                     *)
(***************************************************************************)
EXTENDS Integers, Sequences, FiniteSets, TLC

\* ---------------------------------------------------------------- bounds
MaxClock     == 2   \* Date.now() ranges over 1..MaxClock in this session
MaxNotebooks == 1   \* notebooks created in one behaviour
MaxSources   == 2   \* source submits in one behaviour
MaxSaved     == 2   \* saved-item saves in one behaviour
MaxSends     == 2   \* accepted intents in one behaviour
MaxParses    == 1   \* file parses / URL fetches outstanding at once
MaxPromptSources == 3   \* sources a notebook of an earlier session holds

Null == -1          \* the null of activeNotebookId (ids are clock values >= 0)

\* ------------------------------------------------------------- vocabulary
TextIntents == {"chat", "summary", "podcast", "ideas", "critique"}
JsonIntents == {"quiz", "flashcards", "faq", "timeline", "mindmap", "debate"}
Intents     == TextIntents \cup JsonIntents

\* ContentType enum
ContentTypeOf(type) ==
    CASE type = "chat"       -> "TEXT"
      [] type = "summary"    -> "SUMMARY"
      [] type = "quiz"       -> "QUIZ"
      [] type = "flashcards" -> "FLASHCARDS"
      [] type = "faq"        -> "FAQ"
      [] type = "timeline"   -> "TIMELINE"
      [] type = "podcast"    -> "PODCAST"
      [] type = "ideas"      -> "IDEAS"
      [] type = "critique"   -> "CRITIQUE"
      [] type = "mindmap"    -> "MIND_MAP"
      [] type = "debate"     -> "DEBATE"

SourceTitles == {"Doc"}

\* a message without contentData (the field is absent in the object literal)
NoData == [kind |-> "none"]

\* ------------------------------------------------------------------ state
VARIABLES
    now,               \* Date.now()
    notebooks,         \* useLocalStorage 'notebooks': sequence of Notebook
    activeNotebookId,  \* useLocalStorage 'activeNotebookId'
    chatHistory,       \* useLocalStorage 'chatHistory': notebook id -> log
    isLoading,         \* useState(false)
    r,                 \* the four values above as captured by the latest render
    calls,             \* backend generation calls awaiting their response
    parses,            \* AddSourceForm submits awaiting parseFile / fetchUrlContent
    isParsing,         \* AddSourceForm's isParsing of the mounted form
    used,              \* events used so far, per kind (bounds the run)
    viewer,            \* the FlashcardViewerModal of the mounted ChatView
    lastOp             \* the handler that made the last step, with its arguments

vars == <<now, notebooks, activeNotebookId, chatHistory, isLoading, r,
          calls, parses, isParsing, used, viewer, lastOp>>

\* the argument of a handler that takes none
NoArg == [none |-> TRUE]

Op(name, nb, arg, ok) == [op |-> name, nb |-> nb, arg |-> arg, ok |-> ok]

\* ---------------------------------------------------------------- helpers
Ids(s) == {s[i].id : i \in 1..Len(s)}

Unique(s) == \A i, j \in 1..Len(s) : s[i].id = s[j].id => i = j

\* notebooks.find(n => n.id === id): Has is "the result is not undefined",
\* Find is the result when there is one (the first match)
Has(nbs, id) == \E i \in 1..Len(nbs) : nbs[i].id = id

Find(nbs, id) ==
    nbs[CHOOSE i \in 1..Len(nbs) :
            nbs[i].id = id /\ \A j \in 1..(i-1) : nbs[j].id # id]

\* const activeNotebook = notebooks.find(n => n.id === activeNotebookId) || null
hasActiveNotebook == Has(r.notebooks, r.activeNotebookId)

activeNotebook == Find(r.notebooks, r.activeNotebookId)

\* key={activeNotebook.id} of the ChatView a render mounts (Null: no ChatView)
ChatViewKey(snap) ==
    IF Has(snap.notebooks, snap.activeNotebookId)
    THEN snap.activeNotebookId ELSE Null

Snapshot == [notebooks        |-> notebooks,
             activeNotebookId |-> activeNotebookId,
             chatHistory      |-> chatHistory,
             isLoading        |-> isLoading]

\* prev[notebookId] || []
LogOf(ch, id) == IF id \in DOMAIN ch THEN ch[id] ELSE <<>>

\* { ...obj, [key]: value }
Put(obj, key, value) ==
    [k \in DOMAIN obj \cup {key} |-> IF k = key THEN value ELSE obj[k]]

\* delete obj[key]
Remove(obj, key) == [k \in DOMAIN obj \ {key} |-> obj[k]]

\* useLocalStorage's setter called with a function, setValue(prev => ...).
\* The hook (hooks/useLocalStorage) is not among the sources; by the Durable
\* Store contract of the specification (4.1), "every mutation from any other
\* component must be reflected by the next read": the function receives the
\* value stored last, whichever render the setter was taken from.
prevValue(stored) == stored

\* no FlashcardViewerModal is mounted (showModal is false)
ViewerClosed == [open |-> FALSE, flashcards |-> <<>>, currentIndex |-> 0]

\* s without its i-th element
DropAt(s, i) == SubSeq(s, 1, i - 1) \o SubSeq(s, i + 1, Len(s))

\* ------------------------------------------------------------------- Init
\* What useLocalStorage reads at start-up is what an earlier session left:
\* nothing (the defaults [], null, {}), or a store written by the handlers
\* below at clock value 0, before this session's clock values 1..MaxClock.
Store(nbs, active, ch) ==
    [notebooks |-> nbs, activeNotebookId |-> active, chatHistory |-> ch]

FreshStore == Store(<<>>, Null, <<>>)

OldSource == [id |-> 0, title |-> "Doc", content |-> "text of Doc",
              type |-> "text"]

\* one notebook holding one source, nothing asked yet
SourcedStore ==
    Store(<<[id |-> 0, sources |-> <<OldSource>>, savedItems |-> <<>>]>>,
          0, [k \in {0} |-> <<>>])

InitWith(stores) ==
    /\ now = 1
    /\ \E store \in stores :
          /\ notebooks = store.notebooks
          /\ activeNotebookId = store.activeNotebookId
          /\ chatHistory = store.chatHistory
          /\ r = [notebooks |-> store.notebooks,
                  activeNotebookId |-> store.activeNotebookId,
                  chatHistory |-> store.chatHistory, isLoading |-> FALSE]
    /\ isLoading = FALSE
    /\ calls = <<>>
    /\ parses = <<>>
    /\ isParsing = FALSE
    /\ used = [notebooks |-> 0, sources |-> 0, saved |-> 0, sends |-> 0]
    /\ viewer = ViewerClosed
    /\ lastOp = Op("init", Null, NoArg, TRUE)

Init == InitWith({FreshStore, SourcedStore})

\* ----------------------------------------------------------------- clock
Tick ==
    /\ now < MaxClock
    /\ now' = now + 1
    /\ lastOp' = Op("tick", Null, NoArg, TRUE)
    /\ UNCHANGED <<viewer, notebooks, activeNotebookId, chatHistory, isLoading, r,
                   calls, parses, isParsing, used>>

\* ---------------------------------------------------------------- render
\* App re-renders: the closures now hold the committed state.  ChatView is
\* keyed by activeNotebook.id, so a change of the rendered active notebook
\* re-mounts AddSourceForm (isParsing back to false; a pending submit of the
\* old form no longer reaches the mounted form's state).  The effect of
\* lines 29-33 then runs with the rendered values.
Render ==
    /\ r # Snapshot
    /\ r' = Snapshot
    /\ LET remount == ChatViewKey(Snapshot) # ChatViewKey(r)
       IN /\ isParsing' = IF remount THEN FALSE ELSE isParsing
          /\ parses' = IF remount
                       THEN [i \in 1..Len(parses) |->
                                [parses[i] EXCEPT !.mounted = FALSE]]
                       ELSE parses
    /\ activeNotebookId' =
          IF activeNotebookId = Null /\ Len(notebooks) > 0
          THEN notebooks[1].id ELSE activeNotebookId
    /\ viewer' = IF ChatViewKey(Snapshot) # ChatViewKey(r)
                 THEN ViewerClosed ELSE viewer
    /\ lastOp' = Op("render", Null, NoArg, TRUE)
    /\ UNCHANGED <<now, notebooks, chatHistory, isLoading, calls, used>>

\* ------------------------------------------------------------- notebooks
handleCreateNotebook ==
    /\ used.notebooks < MaxNotebooks
    /\ used' = [used EXCEPT !.notebooks = @ + 1]
    /\ LET newNotebook == [id |-> now, sources |-> <<>>, savedItems |-> <<>>]
       IN /\ notebooks' = Append(r.notebooks, newNotebook)
          /\ chatHistory' = Put(r.chatHistory, newNotebook.id, <<>>)
          /\ activeNotebookId' = newNotebook.id
          /\ lastOp' = Op("createNotebook", newNotebook.id, NoArg, TRUE)
    /\ UNCHANGED <<viewer, now, isLoading, r, calls, parses, isParsing>>

handleDeleteNotebook(id) ==
    LET newNotebooks == SelectSeq(r.notebooks, LAMBDA n : n.id # id)
    IN /\ notebooks' = newNotebooks
       /\ chatHistory' = Remove(r.chatHistory, id)
       /\ activeNotebookId' =
             IF r.activeNotebookId = id
             THEN (IF Len(newNotebooks) > 0 THEN newNotebooks[1].id ELSE Null)
             ELSE activeNotebookId
       /\ lastOp' = Op("deleteNotebook", id, NoArg, TRUE)
       /\ UNCHANGED <<viewer, now, isLoading, r, calls, parses, isParsing, used>>

\* Sidebar: one delete button and one select link per rendered notebook
SidebarDelete == \E id \in Ids(r.notebooks) : handleDeleteNotebook(id)

SidebarSelect ==
    \E id \in Ids(r.notebooks) :
       /\ activeNotebookId' = id
       /\ lastOp' = Op("selectNotebook", id, NoArg, TRUE)
       /\ UNCHANGED <<viewer, now, notebooks, chatHistory, isLoading, r,
                      calls, parses, isParsing, used>>

\* --------------------------------------------------------------- sources
\* handleAddSourceToNotebook as run by the closure whose notebooks is nbs:
\* the value handed to setNotebooks
handleAddSourceToNotebook(nbs, notebookId, title, content) ==
    LET newSource == [id |-> now, title |-> title, content |-> content,
                      type |-> "text"]
    IN [i \in 1..Len(nbs) |->
          IF nbs[i].id = notebookId
          THEN [nbs[i] EXCEPT !.sources = Append(@, newSource)]
          ELSE nbs[i]]

\* AddSourceForm.handleSubmit, sourceType 'text': onAddSource is called in the
\* submit event itself, with the closure of the latest render
SubmitText ==
    /\ hasActiveNotebook
    /\ ~isParsing
    /\ used.sources < MaxSources
    /\ used' = [used EXCEPT !.sources = @ + 1]
    /\ \E title \in SourceTitles :
          /\ notebooks' = handleAddSourceToNotebook(r.notebooks,
                               activeNotebook.id, title, "text of " \o title)
          /\ lastOp' = Op("addSource", activeNotebook.id,
                          [title |-> title, async |-> FALSE], TRUE)
    /\ UNCHANGED <<viewer, now, activeNotebookId, chatHistory, isLoading, r,
                   calls, parses, isParsing>>

\* AddSourceForm.handleSubmit, sourceType 'file' or 'url', up to the await:
\* the submit button is disabled while isParsing; onAddSource and notebookId
\* are the props of the render in which the submit happened
SubmitAsync ==
    /\ hasActiveNotebook
    /\ ~isParsing
    /\ Len(parses) < MaxParses
    /\ used.sources < MaxSources
    /\ used' = [used EXCEPT !.sources = @ + 1]
    /\ \E title \in SourceTitles, kind \in {"file", "url"} :
          /\ parses' = Append(parses, [notebookId |-> activeNotebook.id,
                                       title |-> title, kind |-> kind,
                                       closure |-> r.notebooks,
                                       mounted |-> TRUE])
          /\ lastOp' = Op("submitAsync", activeNotebook.id,
                          [title |-> title, async |-> TRUE], TRUE)
    /\ isParsing' = TRUE
    /\ UNCHANGED <<viewer, now, notebooks, activeNotebookId, chatHistory, isLoading,
                   r, calls>>

\* parseFile / fetchUrlContent resolves: onAddSource(...), resetForm(), finally
ParseResolves ==
    \E i \in 1..Len(parses) :
       LET p == parses[i]
       IN /\ notebooks' = handleAddSourceToNotebook(p.closure, p.notebookId,
                               p.title, "text of " \o p.title)
          /\ isParsing' = IF p.mounted THEN FALSE ELSE isParsing
          /\ parses' = DropAt(parses, i)
          /\ lastOp' = Op("addSource", p.notebookId,
                          [title |-> p.title, async |-> TRUE], TRUE)
          /\ UNCHANGED <<viewer, now, activeNotebookId, chatHistory, isLoading, r,
                         calls, used>>

\* AddSourceForm.handleSubmit with setIsParsing(false) only in resetForm,
\* after onAddSource, instead of in a finally block
ParseRejects_NoFinally ==
    \E i \in 1..Len(parses) :
       LET p == parses[i]
       IN /\ parses' = DropAt(parses, i)
          /\ lastOp' = Op("parseFailed", p.notebookId,
                          [title |-> p.title, async |-> TRUE,
                           mounted |-> p.mounted], FALSE)
          /\ UNCHANGED <<viewer, now, notebooks, activeNotebookId, chatHistory,
                         isLoading, r, calls, used, isParsing>>

\* parseFile / fetchUrlContent rejects: setError(...), finally setIsParsing(false)
ParseRejects ==
    \E i \in 1..Len(parses) :
       LET p == parses[i]
       IN /\ isParsing' = IF p.mounted THEN FALSE ELSE isParsing
          /\ parses' = DropAt(parses, i)
          /\ lastOp' = Op("parseFailed", p.notebookId,
                          [title |-> p.title, async |-> TRUE,
                           mounted |-> p.mounted], FALSE)
          /\ UNCHANGED <<viewer, now, notebooks, activeNotebookId, chatHistory,
                         isLoading, r, calls, used>>

\* ----------------------------------------------------------- saved items
\* the updater handleSaveItemToNotebook hands to setNotebooks, applied to prev
handleSaveItemToNotebook(prev, notebookId, itemData) ==
    LET newItem == [id |-> now, notebookId |-> notebookId,
                    title |-> itemData.title, type |-> itemData.type,
                    contentData |-> itemData.contentData]
    IN [i \in 1..Len(prev) |->
          IF prev[i].id = notebookId
          THEN [prev[i] EXCEPT !.savedItems = Append(@, newItem)]
          ELSE prev[i]]

\* handleDeleteSavedItem removing by position: splice(findIndex(...), 1),
\* where an index of -1 (id not found) removes the last item
handleDeleteSavedItem_Splice(prev, notebookId, itemId) ==
    [i \in 1..Len(prev) |->
       IF prev[i].id = notebookId
       THEN LET items == prev[i].savedItems
                found == {k \in 1..Len(items) : items[k].id = itemId}
                at == IF found = {} THEN Len(items)
                      ELSE CHOOSE k \in found : \A j \in found : k <= j
            IN [prev[i] EXCEPT !.savedItems = DropAt(items, at)]
       ELSE prev[i]]

\* the updater handleDeleteSavedItem hands to setNotebooks, applied to prev
handleDeleteSavedItem(prev, notebookId, itemId) ==
    [i \in 1..Len(prev) |->
       IF prev[i].id = notebookId
       THEN [prev[i] EXCEPT
                !.savedItems = SelectSeq(@, LAMBDA item : item.id # itemId)]
       ELSE prev[i]]

\* content types whose rendering in GeneratedContent has a Save button
Saveable == {"FLASHCARDS", "QUIZ", "PODCAST", "MIND_MAP", "DEBATE"}

\* ChatView: Save on a rendered message; window.prompt returns a title
SaveItem ==
    /\ hasActiveNotebook
    /\ used.saved < MaxSaved
    /\ used' = [used EXCEPT !.saved = @ + 1]
    /\ LET log == LogOf(r.chatHistory, r.activeNotebookId)
       IN \E k \in 1..Len(log) :
             /\ log[k].contentType \in Saveable
             /\ notebooks' = handleSaveItemToNotebook(prevValue(notebooks),
                                activeNotebook.id,
                                [type |-> log[k].contentType,
                                 contentData |-> log[k].contentData,
                                 title |-> "saved"])
             /\ lastOp' = Op("saveItem", activeNotebook.id,
                             [id |-> now, from |-> k], TRUE)
    /\ UNCHANGED <<viewer, now, activeNotebookId, chatHistory, isLoading, r,
                   calls, parses, isParsing>>

\* SavedItemsList: the delete button of a rendered saved item
DeleteSavedItem ==
    /\ hasActiveNotebook
    /\ \E itemId \in Ids(activeNotebook.savedItems) :
          /\ notebooks' = handleDeleteSavedItem(prevValue(notebooks),
                                                activeNotebook.id, itemId)
          /\ lastOp' = Op("deleteSavedItem", activeNotebook.id,
                          [id |-> itemId,
                           present |-> \E i \in 1..Len(notebooks) :
                              /\ notebooks[i].id = activeNotebook.id
                              /\ itemId \in Ids(notebooks[i].savedItems)],
                          TRUE)
    /\ UNCHANGED <<viewer, now, activeNotebookId, chatHistory, isLoading, r,
                   calls, parses, isParsing, used>>

\* --------------------------------------------------- generative backend
\* JSON values: arrays of objects, objects, strings
JArr(elems)  == [kind |-> "array", elems |-> elems]
JObj(fields) == [kind |-> "object", fields |-> fields]
JStr(str)    == [kind |-> "string", str |-> str]

\* response.text of a free-text call that resolves
TextResponses == {"", "answer"}

\* response.text of a structured call that resolves
JsonResponses ==
    {" ", "Sorry, no.", "{}", "[]", "[{}]",
     "[{term:A,definition:a},{term:B,definition:b}]"}

\* response.text of a quiz call: one question whose correctAnswer is one of
\* its options, and one whose correctAnswer is not (quizSchema types the
\* three properties and requires them; it does not relate them)
QuizResponses ==
    {"[{question:Q,options:[A,B],correctAnswer:A}]",
     "[{question:Q,options:[A,B],correctAnswer:C}]"}

\* mindMapSchema: a root whose children are described down to
\* mindMapNodeSchemaL5, the level that has a topic and no children
MindMapCeiling == 5

\* the JSON text of a mind map that is one chain of topics, levels levels of
\* children below the root
RECURSIVE MindMapText(_)
MindMapText(levels) ==
    IF levels = 0 THEN "{topic:T}"
    ELSE "{topic:T,children:[" \o MindMapText(levels - 1) \o "]}"

\* response.text of a mindmap call: shallow, at the ceiling, one level deeper
MindMapResponses ==
    {MindMapText(1), MindMapText(MindMapCeiling),
     MindMapText(MindMapCeiling + 1)}

\* what the backend does with one call: the promise rejects, or resolves
\* with a response whose text is any of the texts above
Outcomes(type) ==
    {[status |-> "reject", text |-> ""]} \cup
    {[status |-> "resolve", text |-> t] :
        t \in IF type \in TextIntents THEN TextResponses
              ELSE IF type = "quiz" THEN JsonResponses \cup QuizResponses
              ELSE IF type = "mindmap" THEN JsonResponses \cup MindMapResponses
              ELSE JsonResponses}

\* String.prototype.trim
Trim(text) == IF text = " " THEN "" ELSE text

\* JSON.parse: IsJson is "does not throw SyntaxError"
IsJson(text) == text \notin {"", " ", "Sorry, no."}

\* the value JSON.parse builds from MindMapText(levels)
RECURSIVE MindMapNode(_)
MindMapNode(levels) ==
    IF levels = 0 THEN JObj([topic |-> "T"])
    ELSE JObj([topic |-> "T", children |-> <<MindMapNode(levels - 1)>>])

JsonParse(text) ==
    CASE text = "{}"   -> JObj(<<>>)
      [] text = "[]"   -> JArr(<<>>)
      [] text = "[{}]" -> JArr(<< <<>> >>)
      [] text = "[{term:A,definition:a},{term:B,definition:b}]" ->
            JArr(<<[term |-> "A", definition |-> "a"],
                   [term |-> "B", definition |-> "b"]>>)
      [] text = "[{question:Q,options:[A,B],correctAnswer:A}]" ->
            JArr(<<[question |-> "Q", options |-> <<"A", "B">>,
                    correctAnswer |-> "A"]>>)
      [] text = "[{question:Q,options:[A,B],correctAnswer:C}]" ->
            JArr(<<[question |-> "Q", options |-> <<"A", "B">>,
                    correctAnswer |-> "C"]>>)
      [] \E levels \in 0..(MindMapCeiling + 1) : text = MindMapText(levels) ->
            MindMapNode(CHOOSE levels \in 0..(MindMapCeiling + 1) :
                           text = MindMapText(levels))

Returned(value) == [thrown |-> FALSE, value |-> value, error |-> ""]
Thrown(error)   == [thrown |-> TRUE, value |-> NoData, error |-> error]

\* generateJsonContent with the await of the backend call inside the try:
\* the catch rethrows a rejection as the invalid-format error
generateJsonContent_AwaitInTry(outcome) ==
    LET jsonText == Trim(outcome.text)
    IN IF outcome.status = "reject" \/ jsonText = "" \/ ~IsJson(jsonText)
       THEN Thrown("Could not generate valid structured content.")
       ELSE Returned(JsonParse(jsonText))

\* generateJsonContent: the await of the backend call is outside the try
generateJsonContent(outcome) ==
    IF outcome.status = "reject" THEN Thrown("backend call failed")
    ELSE LET jsonText == Trim(outcome.text)
         IN IF jsonText = "" \/ ~IsJson(jsonText)
            THEN Thrown("Could not generate valid structured content.")
            ELSE Returned(JsonParse(jsonText))

\* generateTextContent: returns response.text as it is
generateTextContent(outcome) ==
    IF outcome.status = "reject" THEN Thrown("backend call failed")
    ELSE Returned(JStr(outcome.text))

\* the responseSchema each structured intent sends with its request:
\* top-level type and the required properties (of the items, for an array)
SchemaOf(type) ==
    CASE type = "flashcards" ->
            [kind |-> "array", required |-> {"term", "definition"}]
      [] type = "quiz" ->
            [kind |-> "array",
             required |-> {"question", "options", "correctAnswer"}]
      [] type = "faq" ->
            [kind |-> "array", required |-> {"question", "answer"}]
      [] type = "timeline" ->
            [kind |-> "array", required |-> {"date", "event", "description"}]
      [] type = "mindmap" ->
            [kind |-> "object", required |-> {"topic"}]
      [] type = "debate" ->
            [kind |-> "object", required |-> {"viewpointA", "viewpointB"}]

\* ---------------------------------------------------------------- prompts
\* source.type.toUpperCase()
ToUpperCase(type) ==
    CASE type = "text" -> "TEXT"
      [] type = "url"  -> "URL"

\* the task each intent hands to generatePrompt
TaskOf(type) ==
    IF type = "chat" THEN "answer the following question: question"
    ELSE "generate " \o type

\* generatePrompt building the source blocks from the last source to the
\* first, numbered in that order
generatePrompt_Reversed(sources, task) ==
    [task |-> task,
     sourceMaterial |->
        [index \in 1..Len(sources) |->
           LET source == sources[Len(sources) + 1 - index]
           IN [number  |-> index,
               title   |-> source.title,
               type    |-> ToUpperCase(source.type),
               content |-> source.content]]]

\* generatePrompt: sources.map((source, index) => block).join, under the
\* sentence that names the task.  A block is the header line
\* "--- SOURCE index+1: title (TYPE) ---" and the content; the joined text is
\* kept as the sequence of its blocks.
generatePrompt(sources, task) ==
    [task |-> task,
     sourceMaterial |->
        [index \in 1..Len(sources) |->
           LET source == sources[index]
           IN [number  |-> index,
               title   |-> source.title,
               type    |-> ToUpperCase(source.type),
               content |-> source.content]]]

\* ------------------------------------------------------------ orchestrator
\* the updater updateChat hands to setChatHistory, applied to prev
updateChat(prev, notebookId, message) ==
    Put(prev, notebookId, Append(LogOf(prev, notebookId), message))

InLog(ch, notebookId, message) ==
    \E k \in 1..Len(LogOf(ch, notebookId)) : LogOf(ch, notebookId)[k] = message

UserText(type) == IF type = "chat" THEN "question" ELSE "Generate " \o type

\* the backend call handleSendMessage starts: what the continuation keeps
\* (activeNotebook.id, type, msgId, sources), the prompt the Generation
\* Client builds from the sources, the user message it belongs to,
\* whether that message is in the log ch at the moment the call starts, and
\* pre, the notebook's log before the intent
StartCall(ch, nb, type, userMessage, pre) ==
    [nb        |-> nb.id,
     type      |-> type,
     msgId     |-> now + 1,
     sources   |-> nb.sources,
     prompt    |-> generatePrompt(nb.sources, TaskOf(type)),
     user      |-> userMessage,
     userInLog |-> InLog(ch, nb.id, userMessage),
     pre       |-> pre]

\* handleSendMessage starting the Generation Client call before updateChat
SendStep_CallFirst(ch, nb, type) ==
    LET userMessage == [id |-> now, role |-> "user", text |-> UserText(type),
                        contentType |-> "TEXT", contentData |-> NoData]
    IN [chatHistory |-> updateChat(ch, nb.id, userMessage),
        call |-> StartCall(ch, nb, type, userMessage, LogOf(ch, nb.id))]

\* handleSendMessage from the guard to the await (lines 90-100): the user
\* message goes to the log, then the Generation Client call is started.
\* ch is the latest chatHistory, nb the closure's activeNotebook.
SendStep(ch, nb, type) ==
    LET userMessage == [id |-> now, role |-> "user", text |-> UserText(type),
                        contentType |-> "TEXT", contentData |-> NoData]
        ch1 == updateChat(ch, nb.id, userMessage)
    IN [chatHistory |-> ch1,
        call |-> StartCall(ch1, nb, type, userMessage, LogOf(ch, nb.id))]

\* case 'flashcards' with the id built from the clock alone
WithIds_NoIndex(raw) ==
    IF raw.kind # "array" THEN Thrown("rawFlashcards.map is not a function")
    ELSE Returned(JArr([k \in 1..Len(raw.elems) |->
                          [id |-> [t |-> now, index |-> 0]]
                             @@ raw.elems[k]]))

\* case 'flashcards': rawFlashcards.map((card, index) => ({...card, id}));
\* .map on a value that is not an array throws TypeError
WithIds(raw) ==
    IF raw.kind # "array" THEN Thrown("rawFlashcards.map is not a function")
    ELSE Returned(JArr([k \in 1..Len(raw.elems) |->
                          [id |-> [t |-> now, index |-> k - 1]]
                             @@ raw.elems[k]]))

Label(type) == "Here is " \o type

\* the try block: the generation call of the intent and the response built
\* from it, or the exception that reaches the catch
Response(call, outcome) ==
    LET type == call.type
        res == IF type \in TextIntents THEN generateTextContent(outcome)
               ELSE generateJsonContent(outcome)
        data == IF res.thrown THEN res
                ELSE IF type = "flashcards" THEN WithIds(res.value)
                ELSE IF type = "podcast"
                     THEN Returned(JObj([script |-> res.value.str]))
                ELSE res
    IN IF data.thrown THEN data
       ELSE Returned([id |-> call.msgId, role |-> "model",
                      text |-> IF type = "chat" THEN data.value.str
                               ELSE Label(type),
                      contentType |-> ContentTypeOf(type),
                      contentData |-> IF type = "chat" THEN NoData
                                      ELSE data.value])

\* the catch block's message
ErrorMessage ==
    [id |-> now + 1, role |-> "model", text |-> "Sorry, I encountered an error.",
     contentType |-> "ERROR", contentData |-> NoData]

\* handleSendMessage(message, type) with type one of types, accepted
SendAccepted(types) ==
    /\ hasActiveNotebook /\ ~r.isLoading
    /\ used.sends < MaxSends
    /\ used' = [used EXCEPT !.sends = @ + 1]
    /\ \E type \in types :
          LET step == SendStep(prevValue(chatHistory), activeNotebook, type)
          IN /\ chatHistory' = step.chatHistory
             /\ calls' = Append(calls, step.call)
             /\ lastOp' = Op("send", activeNotebook.id, [type |-> type], TRUE)
    /\ isLoading' = TRUE
    /\ UNCHANGED <<viewer, now, notebooks, activeNotebookId, r, parses, isParsing>>

\* handleSendMessage with the guard inside the try block: the return runs
\* the finally block, which clears the busy flag
SendRejected_ClearsBusy ==
    /\ ~(hasActiveNotebook /\ ~r.isLoading)
    /\ isLoading' = FALSE
    /\ lastOp' = Op("send", Null, NoArg, FALSE)
    /\ UNCHANGED <<viewer, now, notebooks, activeNotebookId, chatHistory,
                   r, calls, parses, isParsing, used>>

\* handleSendMessage(message, type), returning at line 88
SendRejected ==
    /\ ~(hasActiveNotebook /\ ~r.isLoading)
    /\ lastOp' = Op("send", Null, NoArg, FALSE)
    /\ UNCHANGED <<viewer, now, notebooks, activeNotebookId, chatHistory, isLoading,
                   r, calls, parses, isParsing, used>>

handleSendMessage(types) == SendAccepted(types) \/ SendRejected

\* handleSendMessage calling the Generation Client again after a failure:
\* the call stays pending and nothing is appended
BackendSettles_Retry ==
    \E i \in 1..Len(calls) :
       \E outcome \in Outcomes(calls[i].type) :
          LET call == calls[i]
              res  == Response(call, outcome)
          IN /\ chatHistory' = IF res.thrown THEN chatHistory
                               ELSE updateChat(prevValue(chatHistory),
                                               call.nb, res.value)
             /\ isLoading' = IF res.thrown THEN isLoading ELSE FALSE
             /\ calls' = IF res.thrown THEN calls ELSE DropAt(calls, i)
             /\ lastOp' = Op("settle", call.nb,
                             [call |-> call, outcome |-> outcome,
                              error |-> res.error], ~res.thrown)
             /\ UNCHANGED <<viewer, now, notebooks, activeNotebookId, r, parses,
                            isParsing, used>>

\* handleSendMessage with setIsLoading(false) at the end of the try block
\* instead of in a finally block
BackendSettles_NoFinally ==
    \E i \in 1..Len(calls) :
       \E outcome \in Outcomes(calls[i].type) :
          LET call == calls[i]
              res  == Response(call, outcome)
              message == IF res.thrown THEN ErrorMessage ELSE res.value
          IN /\ chatHistory' = updateChat(prevValue(chatHistory), call.nb,
                                          message)
             /\ isLoading' = IF res.thrown THEN isLoading ELSE FALSE
             /\ calls' = DropAt(calls, i)
             /\ lastOp' = Op("settle", call.nb,
                             [call |-> call, outcome |-> outcome,
                              error |-> res.error], ~res.thrown)
             /\ UNCHANGED <<viewer, now, notebooks, activeNotebookId, r, parses,
                            isParsing, used>>

\* handleSendMessage appending the answer to the log of the notebook that is
\* active when the call settles
BackendSettles_ToActive ==
    \E i \in 1..Len(calls) :
       \E outcome \in Outcomes(calls[i].type) :
          LET call == calls[i]
              res  == Response(call, outcome)
              message == IF res.thrown THEN ErrorMessage ELSE res.value
          IN /\ chatHistory' = updateChat(prevValue(chatHistory),
                                          activeNotebookId, message)
             /\ isLoading' = FALSE
             /\ calls' = DropAt(calls, i)
             /\ lastOp' = Op("settle", call.nb,
                             [call |-> call, outcome |-> outcome,
                              error |-> res.error], ~res.thrown)
             /\ UNCHANGED <<viewer, now, notebooks, activeNotebookId, r, parses,
                            isParsing, used>>

\* the backend answers a call: the rest of handleSendMessage (try, catch,
\* finally) runs to its end
BackendSettles ==
    \E i \in 1..Len(calls) :
       \E outcome \in Outcomes(calls[i].type) :
          LET call == calls[i]
              res  == Response(call, outcome)
              message == IF res.thrown THEN ErrorMessage ELSE res.value
          IN /\ chatHistory' = updateChat(prevValue(chatHistory), call.nb,
                                          message)
             /\ isLoading' = FALSE
             /\ calls' = DropAt(calls, i)
             /\ lastOp' = Op("settle", call.nb,
                             [call |-> call, outcome |-> outcome,
                              error |-> res.error], ~res.thrown)
             /\ UNCHANGED <<viewer, now, notebooks, activeNotebookId, r, parses,
                            isParsing, used>>

\* -------------------------------------------------------- flashcard viewer
\* FlashcardsView: the "View Flashcards" button of a rendered FLASHCARDS
\* message sets showModal, which mounts FlashcardViewerModal on the
\* message's cards with currentIndex = useState(0)
OpenViewer ==
    /\ hasActiveNotebook
    /\ ~viewer.open
    /\ LET log == LogOf(r.chatHistory, r.activeNotebookId)
       IN \E k \in 1..Len(log) :
             /\ log[k].contentType = "FLASHCARDS"
             /\ viewer' = [open |-> TRUE,
                           flashcards |-> log[k].contentData.elems,
                           currentIndex |-> 0]
             /\ lastOp' = Op("openViewer", r.activeNotebookId,
                             [from |-> k], TRUE)
    /\ UNCHANGED <<now, notebooks, activeNotebookId, chatHistory, isLoading,
                   r, calls, parses, isParsing, used>>

\* handleNext (the Next button and the ArrowRight key)
handleNext ==
    /\ viewer.open
    /\ viewer' = IF viewer.currentIndex < Len(viewer.flashcards) - 1
                 THEN [viewer EXCEPT !.currentIndex = @ + 1] ELSE viewer
    /\ lastOp' = Op("next", Null, NoArg, TRUE)
    /\ UNCHANGED <<now, notebooks, activeNotebookId, chatHistory, isLoading,
                   r, calls, parses, isParsing, used>>

\* handlePrev (the Previous button and the ArrowLeft key)
handlePrev ==
    /\ viewer.open
    /\ viewer' = IF viewer.currentIndex > 0
                 THEN [viewer EXCEPT !.currentIndex = @ - 1] ELSE viewer
    /\ lastOp' = Op("prev", Null, NoArg, TRUE)
    /\ UNCHANGED <<now, notebooks, activeNotebookId, chatHistory, isLoading,
                   r, calls, parses, isParsing, used>>

\* onClose (the Close button and the Escape key): setShowModal(false)
onClose ==
    /\ viewer.open
    /\ viewer' = ViewerClosed
    /\ lastOp' = Op("closeViewer", Null, NoArg, TRUE)
    /\ UNCHANGED <<now, notebooks, activeNotebookId, chatHistory, isLoading,
                   r, calls, parses, isParsing, used>>

\* --------------------------------------------------------- specifications
\* the intents the user submits in the specifications that interleave
\* several intents with the other events: one free-text intent and the
\* structured intent whose payload handleSendMessage post-processes
UsedIntents == {"chat", "flashcards"}

\* the orchestrator: several intents, notebook creation and deletion
Next ==
    \/ Tick
    \/ Render
    \/ handleCreateNotebook
    \/ SidebarDelete
    \/ handleSendMessage(UsedIntents)
    \/ BackendSettles

Spec == Init /\ [][Next]_vars

\* every backend call eventually resolves or rejects
SpecLive == Spec /\ WF_vars(BackendSettles)

\* React flushes the render that a click or a submit causes before the next
\* click or submit is dispatched: the handlers of such events then run in
\* the closures of the latest render, and only promise continuations run in
\* older ones
Rendered == r = Snapshot

\* one intent per behaviour, of every kind, with every backend answer, every
\* event handled in the latest render
NextIntents ==
    \/ Tick
    \/ Render
    \/ (Rendered /\ handleCreateNotebook)
    \/ (Rendered /\ SidebarDelete)
    \/ (Rendered /\ used.sends = 0 /\ SendAccepted(Intents))
    \/ (Rendered /\ SendRejected)
    \/ BackendSettles

SpecIntents == Init /\ [][NextIntents]_vars

\* the source registry: synchronous and asynchronous source adds, every
\* event handled in the latest render
NextSources ==
    \/ Tick
    \/ Render
    \/ (Rendered /\ handleCreateNotebook)
    \/ (Rendered /\ SidebarDelete)
    \/ (Rendered /\ SidebarSelect)
    \/ (Rendered /\ SubmitText)
    \/ (Rendered /\ SubmitAsync)
    \/ ParseResolves
    \/ ParseRejects

SpecSources == Init /\ [][NextSources]_vars

\* the state updates of a promise continuation (updateChat and setIsLoading
\* after the await) are rendered in a later task: a click or a submit can be
\* dispatched before that render and then runs in the closures of the render
\* before the continuation
Dispatched == Rendered \/ lastOp.op = "settle"

\* the orchestrator: several intents, notebook creation, deletion and
\* selection; clicks and submits are rendered before anything else runs,
\* the updates of a continuation are not
NextDialogue ==
    \/ Tick
    \/ Render
    \/ (Dispatched /\ handleCreateNotebook)
    \/ (Dispatched /\ SidebarDelete)
    \/ (Dispatched /\ SidebarSelect)
    \/ (Dispatched /\ SendAccepted(UsedIntents))
    \/ (Dispatched /\ SendRejected)
    \/ (Rendered /\ BackendSettles)

SpecDialogue == Init /\ [][NextDialogue]_vars

\* the k-th of n sources added at the clock values -(n-1) .. 0
EarlierSource(title, k, n) ==
    [id |-> k - n, title |-> title, content |-> "text of " \o title,
     type |-> "text"]

TitleLists ==
    UNION {[1..n -> {"Doc", "Memo"}] : n \in 0..MaxPromptSources}

\* one notebook holding any list of sources, nothing asked yet
PromptStores ==
    {Store(<<[id |-> 0,
              sources |-> [k \in 1..Len(titles) |->
                             EarlierSource(titles[k], k, Len(titles))],
              savedItems |-> <<>>]>>,
           0, [k \in {0} |-> <<>>]) : titles \in TitleLists}

\* the prompts of the intents, over notebooks with every list of sources
NextPrompt ==
    \/ Tick
    \/ Render
    \/ (Rendered /\ SendAccepted(UsedIntents))
    \/ (Rendered /\ SendRejected)
    \/ BackendSettles

SpecPrompt == InitWith(PromptStores) /\ [][NextPrompt]_vars

\* the flashcard viewer over the answers to flashcards intents; the modal
\* covers the page, so the intent controls are used while it is closed
NextViewer ==
    \/ Tick
    \/ Render
    \/ (Rendered /\ ~viewer.open /\ SendAccepted({"flashcards"}))
    \/ BackendSettles
    \/ (Rendered /\ OpenViewer)
    \/ handleNext
    \/ handlePrev
    \/ onClose

SpecViewer == InitWith({SourcedStore}) /\ [][NextViewer]_vars

\* the store an earlier session leaves after one flashcards intent, answered
\* with two cards at clock value 0, on the notebook of SourcedStore
AnsweredStore ==
    Store(SourcedStore.notebooks, 0,
          [k \in {0} |->
             <<[id |-> 0, role |-> "user", text |-> "Generate flashcards",
                contentType |-> "TEXT", contentData |-> NoData],
               [id |-> 1, role |-> "model", text |-> "Here is flashcards",
                contentType |-> "FLASHCARDS",
                contentData |->
                   JArr(<<[id |-> [t |-> 0, index |-> 0],
                           term |-> "A", definition |-> "a"],
                          [id |-> [t |-> 0, index |-> 1],
                           term |-> "B", definition |-> "b"]>>)]>>])

\* the saved items library, over a store whose log holds a flashcards answer
NextLibrary ==
    \/ Tick
    \/ Render
    \/ handleCreateNotebook
    \/ SidebarDelete
    \/ SidebarSelect
    \/ SaveItem
    \/ DeleteSavedItem

SpecLibrary == InitWith({AnsweredStore}) /\ [][NextLibrary]_vars

\* ----------------------------------------------------------------- claims
Last(s) == s[Len(s)]

\* the step just taken is the handler op
Did(op) == lastOp'.op = op

\* C1: at most one backend generation call is outstanding at a time: every
\* handleSendMessage call made between the acceptance of an intent and its
\* settling is rejected, also one made before App has re-rendered.
C1_SingleFlight == Len(calls) <= 1

\* C2: when the backend call of an accepted intent is started, the user
\* message of that intent is already in the originating notebook's log.
C2_UserMessageBeforeCall == \A i \in 1..Len(calls) : calls[i].userInLog

C2_Witness ==
    /\ Len(calls) = 1
    /\ InLog(chatHistory, calls[1].nb, calls[1].user)
    /\ calls[1].userInLog

\* C3: when the Generation Client call of an accepted intent fails, exactly
\* one model message of type ERROR without contentData is appended, and the
\* notebook's log is its pre-call log plus the user and the error message.
C3_FailureAppendsOneError ==
    [][(Did("settle") /\ ~lastOp'.ok) =>
          LET call == lastOp'.arg.call
              log  == LogOf(chatHistory', call.nb)
          IN /\ log = Append(LogOf(chatHistory, call.nb), Last(log))
             /\ Last(log).role = "model"
             /\ Last(log).contentType = "ERROR"
             /\ Last(log).contentData = NoData
             /\ Len(log) = Len(call.pre) + 2]_vars

\* schema validation of a parsed payload: the top-level type of the schema
\* and the required properties of the object, or of every item of the array
Conforms(schema, value) ==
    /\ value.kind = schema.kind
    /\ value.kind = "array" =>
          \A k \in 1..Len(value.elems) :
             schema.required \subseteq DOMAIN value.elems[k]
    /\ value.kind = "object" => schema.required \subseteq DOMAIN value.fields

ValidPayload(type, text) ==
    /\ IsJson(Trim(text))
    /\ Conforms(SchemaOf(type), JsonParse(Trim(text)))

\* C4: when the backend answers a structured intent with a payload that
\* fails schema validation, exactly one ERROR message and no structured-type
\* message is appended, and the log grows by 2 from its pre-call state.
C4_InvalidPayloadGivesError ==
    [][(/\ Did("settle")
        /\ lastOp'.arg.call.type \in JsonIntents
        /\ lastOp'.arg.outcome.status = "resolve"
        /\ ~ValidPayload(lastOp'.arg.call.type, lastOp'.arg.outcome.text)) =>
          LET call == lastOp'.arg.call
              log  == LogOf(chatHistory', call.nb)
          IN /\ log = Append(LogOf(chatHistory, call.nb), Last(log))
             /\ Last(log).contentType = "ERROR"
             /\ Len(log) = Len(call.pre) + 2]_vars

\* C5: handleSendMessage on an active notebook without sources starts no
\* backend call and leaves the conversation log unchanged.
C5_NoSourcesNoCall ==
    [][(/\ Did("send")
        /\ hasActiveNotebook
        /\ activeNotebook.sources = <<>>) =>
          (calls' = calls /\ chatHistory' = chatHistory)]_vars

\* C6: a source add that completes after a file parse or URL fetch yields
\* the latest notebooks list with only the new source appended to the target
\* notebook.
C6_AsyncAddKeepsLatest ==
    [][(Did("addSource") /\ lastOp'.arg.async) =>
          notebooks' = handleAddSourceToNotebook(notebooks, lastOp'.nb,
                          lastOp'.arg.title, "text of " \o lastOp'.arg.title)]_vars

\* C7: every addSource call on a notebook appends its source at the end of
\* the notebook's sources, which are otherwise unchanged, and the source ids
\* of the notebook stay unique (also for calls in one clock millisecond).
C7_SourcesInCallOrderUniqueIds ==
    [][(Did("addSource") /\ Has(notebooks, lastOp'.nb)) =>
          /\ Has(notebooks', lastOp'.nb)
          /\ LET old == Find(notebooks, lastOp'.nb).sources
                 new == Find(notebooks', lastOp'.nb).sources
             IN /\ Len(new) = Len(old) + 1
                /\ SubSeq(new, 1, Len(old)) = old
                /\ Last(new).title = lastOp'.arg.title
                /\ Unique(new)]_vars

\* C8: on an existing notebook N a save lengthens N.savedItems by one, a
\* delete of a present id shortens it by exactly one (also after saves in
\* one clock millisecond), and every item of N has notebookId N.id.
C8_SavedItemsCount ==
    [][/\ (Did("saveItem") /\ Has(notebooks, lastOp'.nb)) =>
             Len(Find(notebooks', lastOp'.nb).savedItems)
                = Len(Find(notebooks, lastOp'.nb).savedItems) + 1
       /\ (/\ Did("deleteSavedItem")
           /\ Has(notebooks, lastOp'.nb)
           /\ lastOp'.arg.id \in Ids(Find(notebooks, lastOp'.nb).savedItems)) =>
             Len(Find(notebooks', lastOp'.nb).savedItems)
                = Len(Find(notebooks, lastOp'.nb).savedItems) - 1
       /\ \A i \in 1..Len(notebooks') :
             \A k \in 1..Len(notebooks'[i].savedItems) :
                notebooks'[i].savedItems[k].notebookId = notebooks'[i].id]_vars

\* the saved item itemId is not in notebook notebookId of nbs, or there is no
\* such notebook
Absent(nbs, notebookId, itemId) ==
    \A i \in 1..Len(nbs) :
       nbs[i].id = notebookId => itemId \notin Ids(nbs[i].savedItems)

\* C9: handleDeleteSavedItem with an item id that is not in the notebook's
\* savedItems, or with a notebook id that does not exist, leaves notebooks
\* unchanged, and the same delete applied again changes nothing.
C9_DeleteIdempotent ==
    [][Did("deleteSavedItem") =>
          /\ Absent(notebooks, lastOp'.nb, lastOp'.arg.id) =>
                notebooks' = notebooks
          /\ Absent(notebooks', lastOp'.nb, lastOp'.arg.id)
          /\ handleDeleteSavedItem(notebooks', lastOp'.nb, lastOp'.arg.id)
                = notebooks']_vars

\* a delete of an id that is absent has just run on a notebook that holds
\* another saved item
C9_Witness ==
    /\ lastOp.op = "deleteSavedItem"
    /\ ~lastOp.arg.present
    /\ Has(notebooks, lastOp.nb)
    /\ Absent(notebooks, lastOp.nb, lastOp.arg.id)
    /\ Find(notebooks, lastOp.nb).savedItems # <<>>

\* C10: a successful flashcards intent whose backend payload is an array of
\* k cards appends a FLASHCARDS message whose contentData has k elements,
\* keeps term and definition of each card in order, and gives every element
\* an id that is unique within the message.
C10_FlashcardsWithIds ==
    [][(Did("settle") /\ lastOp'.ok /\ lastOp'.arg.call.type = "flashcards") =>
          LET raw  == JsonParse(Trim(lastOp'.arg.outcome.text)).elems
              msg  == Last(LogOf(chatHistory', lastOp'.arg.call.nb))
              data == msg.contentData.elems
          IN /\ msg.contentType = "FLASHCARDS"
             /\ Len(data) = Len(raw)
             /\ \A k \in 1..Len(raw) :
                   \A f \in DOMAIN raw[k] : data[k][f] = raw[k][f]
             /\ \A j, k \in 1..Len(data) : data[j].id = data[k].id => j = k]_vars

C10_Witness ==
    /\ lastOp.op = "settle" /\ lastOp.ok
    /\ lastOp.arg.call.type = "flashcards"
    /\ Len(Last(LogOf(chatHistory, lastOp.arg.call.nb)).contentData.elems) = 2

\* C11: every message id is unique within its notebook's conversation log
\* and every notebook id is unique within notebooks, whatever the clock
\* values of the operations.
C11_UniqueIds ==
    /\ Unique(notebooks)
    /\ \A id \in DOMAIN chatHistory : Unique(chatHistory[id])

\* what the Generation Client returned for the call of an intent
PayloadOf(type, outcome) ==
    IF type \in TextIntents THEN generateTextContent(outcome).value
    ELSE generateJsonContent(outcome).value

\* C12: when the backend call of an accepted intent succeeds, exactly one
\* model message is appended, its contentType is the one fixed for the
\* intent, its contentData is the payload the Generation Client returned,
\* and the log is the pre-call log plus the user and the model message.
C12_SuccessAppendsPayload ==
    [][(Did("settle") /\ lastOp'.ok) =>
          LET call == lastOp'.arg.call
              log  == LogOf(chatHistory', call.nb)
          IN /\ log = Append(LogOf(chatHistory, call.nb), Last(log))
             /\ Last(log).role = "model"
             /\ Last(log).contentType = ContentTypeOf(call.type)
             /\ Last(log).contentData
                   = PayloadOf(call.type, lastOp'.arg.outcome)
             /\ Len(log) = Len(call.pre) + 2]_vars

\* C13: every notebook's log is a sequence of (user message, model message)
\* pairs in the order the intents were issued, optionally ending with the
\* user message of a pending call; no two user messages are adjacent and no
\* model message stands without the user message of its intent before it.
C13_LogAlternates ==
    \A id \in DOMAIN chatHistory :
       LET log == chatHistory[id]
       IN /\ \A k \in 1..Len(log) :
                log[k].role = IF k % 2 = 1 THEN "user" ELSE "model"
          /\ Len(log) % 2 = 1 =>
                \E i \in 1..Len(calls) :
                   calls[i].nb = id /\ calls[i].user = Last(log)

\* C14: the log of a notebook that exists before and after a step has its
\* earlier value as a prefix: no operation removes, reorders or rewrites a
\* message of a notebook that is not deleted.
C14_AppendOnly ==
    [][\A id \in Ids(notebooks) \cap Ids(notebooks') :
          LET old == LogOf(chatHistory, id)
              new == LogOf(chatHistory', id)
          IN Len(old) <= Len(new) /\ SubSeq(new, 1, Len(old)) = old]_vars

\* C15: a deleted notebook has no conversation log, also when a call that
\* was pending at its deletion settles later: the notebook ids with an
\* entry in chatHistory are ids of existing notebooks.
C15_NoLogWithoutNotebook == DOMAIN chatHistory \subseteq Ids(notebooks)

\* C16: while a generation call is pending and the busy flag is set, the
\* active notebook is the notebook the pending call was issued for.
C16_ActiveFixedWhileBusy ==
    isLoading => \A i \in 1..Len(calls) : calls[i].nb = activeNotebookId

\* C17: if every backend call eventually resolves or rejects, every accepted
\* intent eventually settles: its call ends with one model message (result
\* or ERROR) appended, and the busy flag eventually returns to false.
C17_EventuallySettles ==
    /\ (Len(calls) > 0) ~>
          (/\ calls = <<>>
           /\ lastOp.op = "settle"
           /\ Last(LogOf(chatHistory, lastOp.nb)).role = "model")
    /\ isLoading ~> ~isLoading

\* a call failed and the busy flag is back to false with no call pending
C17_Witness ==
    /\ lastOp.op = "settle" /\ ~lastOp.ok
    /\ ~isLoading /\ calls = <<>>

\* C18: every accepted intent issues exactly one backend request: an
\* accepted handleSendMessage adds one pending request, every settling,
\* failed or not, ends one and starts none, and no other step starts one.
C18_OneRequestPerIntent ==
    [][IF Did("send") /\ lastOp'.ok
       THEN \E call \in {calls'[i] : i \in 1..Len(calls')} :
               calls' = Append(calls, call)
       ELSE IF Did("settle")
       THEN \E i \in 1..Len(calls) : calls' = DropAt(calls, i)
       ELSE calls' = calls]_vars

\* a backend call was rejected and no request is pending after it
C18_Witness ==
    /\ lastOp.op = "settle" /\ ~lastOp.ok
    /\ lastOp.arg.outcome.status = "reject"
    /\ calls = <<>>

\* C19: an empty backend response to a free-text intent (chat, summary,
\* podcast, ideas, critique) gives an ERROR message in the log, not a
\* message of the intent's type with empty content.
C19_EmptyTextGivesError ==
    [][(/\ Did("settle")
        /\ lastOp'.arg.call.type \in TextIntents
        /\ lastOp'.arg.outcome.status = "resolve"
        /\ Trim(lastOp'.arg.outcome.text) = "") =>
          Last(LogOf(chatHistory', lastOp'.arg.call.nb)).contentType
             = "ERROR"]_vars

\* C20: for a structured intent the Generation Client's error for an
\* unparsable response differs from its error for a failed backend call, and
\* both give the same single ERROR message in the log.
C20_ErrorsDistinguishable ==
    [][(Did("settle") /\ lastOp'.arg.call.type \in JsonIntents) =>
          LET call    == lastOp'.arg.call
              outcome == lastOp'.arg.outcome
              log     == LogOf(chatHistory', call.nb)
              failed  == generateJsonContent([status |-> "reject",
                                              text |-> ""])
              res     == generateJsonContent(outcome)
          IN /\ failed.thrown
             /\ (outcome.status = "resolve" /\ res.thrown) =>
                   res.error # failed.error
             /\ res.thrown =>
                   /\ lastOp'.arg.error = res.error
                   /\ log = Append(LogOf(chatHistory, call.nb), ErrorMessage)]_vars

\* the backend answered a structured intent with text that is not JSON
C20_Witness ==
    /\ lastOp.op = "settle" /\ ~lastOp.ok
    /\ lastOp.arg.call.type \in JsonIntents
    /\ lastOp.arg.outcome.status = "resolve"
    /\ ~IsJson(Trim(lastOp.arg.outcome.text))

\* every question of s (an element with options and a correctAnswer) has its
\* correctAnswer among its options
AnswersAmongOptions(s) ==
    \A k \in 1..Len(s) :
       {"options", "correctAnswer"} \subseteq DOMAIN s[k] =>
          \E j \in 1..Len(s[k].options) : s[k].options[j] = s[k].correctAnswer

\* C21: every QuizQuestion stored in a QUIZ message of a conversation log
\* has its correctAnswer among its options, whatever payload the backend
\* returns for the quiz intent.
C21_CorrectAnswerInOptions ==
    \A id \in DOMAIN chatHistory :
       \A k \in 1..Len(chatHistory[id]) :
          (/\ chatHistory[id][k].contentType = "QUIZ"
           /\ chatHistory[id][k].contentData.kind = "array") =>
             AnswersAmongOptions(chatHistory[id][k].contentData.elems)

\* levels of children below a mind map node
RECURSIVE Levels(_)
Levels(node) ==
    IF "children" \notin DOMAIN node.fields \/ node.fields.children = <<>>
    THEN 0
    ELSE LET below == {Levels(node.fields.children[k]) :
                          k \in 1..Len(node.fields.children)}
         IN 1 + CHOOSE m \in below : \A n \in below : n <= m

\* C22: no MIND_MAP message stored in a log is nested deeper than the
\* ceiling of mindMapSchema: a deeper tree returned by the backend is cut to
\* the ceiling or answered with an ERROR message.
C22_MindMapWithinCeiling ==
    \A id \in DOMAIN chatHistory :
       \A k \in 1..Len(chatHistory[id]) :
          (/\ chatHistory[id][k].contentType = "MIND_MAP"
           /\ chatHistory[id][k].contentData.kind = "object") =>
             Levels(chatHistory[id][k].contentData) <= MindMapCeiling
\* C23: the prompt built for a request holds one block per source of the
\* notebook's registry, block i made from source i (numbered i, with its
\* title and content), so the enumeration is fixed by the registry state.
C23_PromptEnumeratesSources ==
    [][(Did("send") /\ lastOp'.ok) =>
          LET call     == Last(calls')
              registry == Find(notebooks, call.nb).sources
              blocks   == call.prompt.sourceMaterial
          IN /\ Len(blocks) = Len(registry)
             /\ \A i \in 1..Len(registry) :
                   /\ blocks[i].number = i
                   /\ blocks[i].title = registry[i].title
                   /\ blocks[i].content = registry[i].content
             /\ blocks = generatePrompt(registry, "any task").sourceMaterial]_vars

\* a request was issued for a notebook that holds several sources with
\* different titles
C23_Witness ==
    /\ lastOp.op = "send" /\ lastOp.ok
    /\ Len(calls) = 1
    /\ Len(calls[1].prompt.sourceMaterial) = MaxPromptSources
    /\ calls[1].prompt.sourceMaterial[1].title
          # calls[1].prompt.sourceMaterial[2].title
\* C24: when the file parse or URL fetch of a submit fails, no source is
\* added, notebooks and every conversation log are unchanged, and the form
\* that made the submit, if it is still mounted, is back to isParsing false.
C24_IngestionFailureContained ==
    [][Did("parseFailed") =>
          /\ notebooks' = notebooks
          /\ chatHistory' = chatHistory
          /\ Len(parses') = Len(parses) - 1
          /\ lastOp'.arg.mounted => ~isParsing']_vars

\* the parse of a form that is still mounted failed, and the form accepts a
\* new submit
C24_Witness ==
    /\ lastOp.op = "parseFailed" /\ lastOp.arg.mounted
    /\ Has(notebooks, lastOp.nb)
    /\ ~isParsing /\ parses = <<>>
\* C25: a saved item read back from the notebook has the type, title and
\* contentData passed at save time, and neither a later append to a
\* conversation log nor the deletion of another saved item changes it: a
\* delete removes at most the one item it was called for.
C25_SavedItemRoundTrip ==
    [][/\ (Did("saveItem") /\ Has(notebooks, lastOp'.nb)) =>
             LET old == Find(notebooks, lastOp'.nb).savedItems
                 new == Find(notebooks', lastOp'.nb).savedItems
                 msg == LogOf(r.chatHistory, lastOp'.nb)[lastOp'.arg.from]
             IN /\ SubSeq(new, 1, Len(old)) = old
                /\ Last(new).type = msg.contentType
                /\ Last(new).contentData = msg.contentData
                /\ Last(new).title = "saved"
       /\ Did("deleteSavedItem") =>
             /\ Len(notebooks') = Len(notebooks)
             /\ \A i \in 1..Len(notebooks) :
                   LET old == notebooks[i].savedItems
                       new == notebooks'[i].savedItems
                   IN new = old \/ \E at \in 1..Len(old) : new = DropAt(old, at)
       /\ (Did("send") \/ Did("settle")) => notebooks' = notebooks]_vars
\* C26: the active-notebook pointer is null or the id of an existing
\* notebook; deleting the active notebook moves it to the first remaining
\* notebook, or to null when none remains, and deleting another notebook
\* leaves it unchanged.
C26_ActivePointerValid ==
    /\ activeNotebookId = Null \/ Has(notebooks, activeNotebookId)
    /\ lastOp.op = "deleteNotebook" =>
          \/ activeNotebookId = r.activeNotebookId /\ lastOp.nb # activeNotebookId
          \/ /\ lastOp.nb = r.activeNotebookId
             /\ activeNotebookId = IF Len(notebooks) > 0 THEN notebooks[1].id
                                   ELSE Null
\* C27: the call of an intent belongs to the notebook that is active when
\* the intent is issued, and its model or ERROR message is appended to that
\* notebook's log and to no other log, whichever notebook is active when the
\* call settles.
C27_AnswerToOriginatingLog ==
    [][/\ (Did("send") /\ lastOp'.ok) =>
             /\ Last(calls').nb = activeNotebookId
             /\ lastOp'.nb = activeNotebookId
       /\ Did("settle") =>
             LET call == lastOp'.arg.call
                 log  == LogOf(chatHistory', call.nb)
             IN /\ Len(log) > 0 /\ Last(log).role = "model"
                /\ chatHistory' = Put(chatHistory, call.nb,
                                      Append(LogOf(chatHistory, call.nb),
                                             Last(log)))]_vars

\* a call settled while another existing notebook was the active one
C27_Witness ==
    /\ lastOp.op = "settle"
    /\ activeNotebookId # lastOp.arg.call.nb
    /\ Has(notebooks, lastOp.arg.call.nb)
    /\ Has(notebooks, activeNotebookId)
    /\ Last(LogOf(chatHistory, lastOp.arg.call.nb)).id = lastOp.arg.call.msgId
\* C28: handleSendMessage called while the busy flag is set, or while there
\* is no active notebook, is rejected, and a rejected call appends no user
\* message, issues no backend call and leaves notebooks, the conversation
\* logs, the active-notebook pointer and the busy flag unchanged.
C28_RejectedIntentNoEffect ==
    [][(/\ Did("send")
        /\ \/ ~lastOp'.ok
           \/ isLoading \/ r.isLoading
           \/ ~Has(notebooks, activeNotebookId) \/ ~hasActiveNotebook) =>
          /\ ~lastOp'.ok
          /\ calls' = calls
          /\ chatHistory' = chatHistory
          /\ notebooks' = notebooks
          /\ activeNotebookId' = activeNotebookId
          /\ isLoading' = isLoading]_vars

\* an intent was rejected while the call of an earlier one was pending
C28_Witness ==
    /\ lastOp.op = "send" /\ ~lastOp.ok
    /\ isLoading /\ Len(calls) = 1
    /\ Has(notebooks, activeNotebookId)
\* every notebook of nbs other than notebook id is in nbs2 as it was
OthersKept(nbs, nbs2, id) ==
    \A i \in 1..Len(nbs) :
       nbs[i].id # id => \E j \in 1..Len(nbs2) : nbs2[j] = nbs[i]

\* C29: add source, save item and delete saved item change only the target
\* notebook's sources, respectively savedItems, and no conversation log;
\* deleting a notebook leaves the sources, savedItems and conversation log
\* of every other notebook unchanged.
C29_OtherNotebooksUntouched ==
    [][/\ (Did("addSource") \/ Did("saveItem") \/ Did("deleteSavedItem")) =>
             /\ OthersKept(notebooks, notebooks', lastOp'.nb)
             /\ Len(notebooks') = Len(notebooks)
             /\ chatHistory' = chatHistory
             /\ \A i \in 1..Len(notebooks) :
                   notebooks[i].id = lastOp'.nb =>
                      IF Did("addSource")
                      THEN notebooks'[i].savedItems = notebooks[i].savedItems
                      ELSE notebooks'[i].sources = notebooks[i].sources
       /\ Did("deleteNotebook") =>
             /\ OthersKept(notebooks, notebooks', lastOp'.nb)
             /\ \A id \in Ids(notebooks) \ {lastOp'.nb} :
                   LogOf(chatHistory', id) = LogOf(chatHistory, id)]_vars
\* C30: while the flashcard viewer is open its current index is an index of
\* the list it shows, 0 <= currentIndex < flashcards.length, for every list
\* a flashcards intent can store (the empty list included) and after every
\* sequence of next and previous actions.
C30_CurrentCardExists ==
    viewer.open =>
       /\ 0 <= viewer.currentIndex
       /\ viewer.currentIndex < Len(viewer.flashcards)
====
